---- MODULE Spec2Model ----
(***************************************************************************)
(* Metric lifecycle and ExperienceMetric aggregation of @figliolia/metrics. *)
(*                                                                         *)
(* The program is single threaded and every emit runs its listeners        *)
(* synchronously, so one public call (start, stop, reset, succeed, fail)   *)
(* together with every listener it triggers is one atomic step.            *)
(*                                                                         *)
(* Objects: a plain Metric "A", an InteractionMetric "B" and an            *)
(* ExperienceMetric "E" constructed over the child list <<A, B>>, and two  *)
(* plugin instances of classes that extend Plugin directly.                *)
(*                                                                         *)
(* Specifications: Spec drives all three metrics, constructed without      *)
(* plugins; SpecPlugins drives the InteractionMetric with outcome payloads *)
(* and registers plugins; SpecFaulty is SpecPlugins with a plugin whose    *)
(* handler throws; SpecReentrant drives metrics whose handlers call back   *)
(* into them; SpecQueue drives a Metric reported through a ReporterPlugin  *)
(* to a ProcessingQueue, with its timer, the page's visibility and the     *)
(* completion of its requests; SpecPageLoad drives a Metric with a         *)
(* PageLoadPlugin while the page navigates; SpecResources drives a Metric  *)
(* with a CriticalResourcePlugin over the page's resource entries;         *)
(* SpecFactory creates metrics from a MetricFactory.                       *)
(***************************************************************************)
EXTENDS Integers, Sequences, FiniteSets, TLC

\* ------------------------------------------------------------- bounds
\* Largest timestamp a caller passes to start/stop/succeed/fail.
MaxTime == 1
Times == 0 .. MaxTime

\* The number of enqueue calls a ProcessingQueue is followed for.
MaxEnqueue == 2

\* The number of clock steps the page is followed for.
MaxTicks == 3

\* The number of create calls a MetricFactory is followed for.
MaxCreated == 2

\* The delay of the flush timer, in milliseconds.
Delay == 1000

\* The clock advances in steps of half a delay.
Step == Delay \div 2

\* ------------------------------------------------------------- objects
\* Status values are the strings of the Status enum ("idol" is the source's
\* spelling of idle, "inProgress", "complete", "failed"); events are the
\* strings of CoreEvents ("start", "stop", "reset") and ReliabilityEvents
\* ("success", "failure").

\* The ExperienceMetric instance.
Experience == "E"

\* ExperienceMetric.metrics: the child list, fixed at construction.
metrics == <<"A", "B">>

Children == {metrics[i] : i \in 1 .. Len(metrics)}

\* The children that are InteractionMetric instances (the others are plain
\* Metric instances).
Interactions == {"B"}

Plain == Children \ Interactions

Metrics == Children \cup {Experience}

\* The value of InteractionMetric.data before any outcome, and of the
\* optional data argument of succeed/fail when it is omitted.
Undefined == "undefined"

\* The names the children are constructed with: all distinct, or two
\* instances sharing a display name.
NameTables ==
  { ("A" :> "Image" @@ "B" :> "Text"),
    ("A" :> "Image" @@ "B" :> "Image") }

\* Field values of a freshly constructed (or reset) Metric.
NewMetric == [startTime |-> 0, stopTime |-> 0, duration |-> 0, status |-> "idol"]

\* The data arguments callers pass to succeed/fail.
Payloads == {Undefined, "payload"}

\* The keys of the CoreEvents and ReliabilityEvents enums.
CoreEvents == {"start", "stop", "reset"}

ReliabilityEvents == {"success", "failure"}

Events == CoreEvents \cup ReliabilityEvents

\* The plugin instances that only observe the metric. Each is an instance
\* of its own class, and both classes extend Plugin directly.
Plugins == {"stopOnly", "outcome"}

\* A plugin whose start and stop handlers call the metric's start and stop.
Reentrant == "reentrant"

\* A ReporterPlugin constructed over the ProcessingQueue.
Reporter == "reporter"

\* A PageLoadPlugin and a CriticalResourcePlugin.
PageLoad == "pageLoad"
Resources == "resources"

\* Every plugin instance.
AllPlugins == Plugins \cup {Reentrant, Reporter, PageLoad, Resources}

\* Mutant of methods: the ReporterPlugin also declares success and failure
\* handlers.
methodsReportingOutcomes ==
  [ stopOnly |-> <<"constructor", "stop">>,
    outcome |-> <<"constructor", "success", "failure", "reset">>,
    reentrant |-> <<"constructor", "start", "stop">>,
    reporter |-> <<"constructor", "stop", "success", "failure">>,
    pageLoad |-> <<"constructor", "register", "start", "reset", "toJSON">>,
    resources |-> <<"constructor", "reset", "stop", "iterateResources",
                    "parseExtension", "toJSON">> ]

\* Object.getOwnPropertyNames(Object.getPrototypeOf(plugin)): the methods the
\* plugin's class declares, "constructor" among them.
methods ==
  [ stopOnly |-> <<"constructor", "stop">>,
    outcome |-> <<"constructor", "success", "failure", "reset">>,
    reentrant |-> <<"constructor", "start", "stop">>,
    reporter |-> <<"constructor", "stop", "toJSON">>,
    pageLoad |-> <<"constructor", "register", "start", "reset", "toJSON">>,
    resources |-> <<"constructor", "reset", "stop", "iterateResources",
                    "parseExtension", "toJSON">> ]

\* The owner of a plugin no metric has registered.
None == "none"

\* The plugin tables the three constructors are called with, each table in
\* key order: no plugins; both plugins on the InteractionMetric; one
\* instance supplied to two metrics.
NoPlugins == [m \in Metrics |-> <<>>]

PluginTables ==
  { NoPlugins,
    [NoPlugins EXCEPT !["B"] = <<"stopOnly", "outcome">>],
    [NoPlugins EXCEPT !["A"] = <<"stopOnly">>, !["B"] = <<"stopOnly", "outcome">>] }

VARIABLES
  metric,            \* id -> [startTime, stopTime, duration, status]
  failed,            \* InteractionMetric.failed
  succeeded,         \* InteractionMetric.succeeded
  data,              \* InteractionMetric.data
  name,              \* child id -> Metric.name
  reference,         \* ExperienceMetric.reference: name -> ID
  completedMetrics,  \* ExperienceMetric.completedMetrics: set of IDs
  emitted,           \* events emitted by the last call, in order: <<id, event>>
  count,             \* id -> start/stop events emitted since the id's last reset event
  stoppedInRun,      \* children that emitted stop since the experience's last reset event
  phase,             \* which calls were made since construction / experience.reset()
  call,              \* the last public call: [op, target, from, stopped]
  rerun,             \* the current run of the children began with experience.reset()
  registered,        \* plugin -> Plugin.registered
  listeners,         \* metric -> event -> the listeners subscribed, in order
  owner,             \* plugin -> the metric whose register call subscribed it
  faulty,            \* the plugins whose handlers throw
  invoked,           \* plugin handlers invoked by the last call: <<plugin, metric, event, seen>>
  thrown,            \* the last call ended with an exception reaching its caller
  pq,                \* the ProcessingQueue, its timers, promises and requests
  visibility,        \* document.visibilityState
  now,               \* the clock, in milliseconds
  timing,            \* PageLoadPlugin.timing
  pageLoad,          \* the PageLoadPlugin's transition and initialLoad
  critical,          \* the CriticalResourcePlugin's cacheRate and criticalSize
  resources,         \* performance.getEntriesByType("resource")
  factory            \* a MetricFactory, the plugins constructed and the metrics created

vars ==
  << metric, failed, succeeded, data, name, reference, completedMetrics,
     emitted, count, stoppedInRun, phase, call, rerun, registered, listeners,
     owner, faulty, invoked, thrown, pq, visibility, now, timing, pageLoad,
     critical, resources, factory >>

\* The mutable program state as one value, threaded through the handlers.
State ==
  [ metric |-> metric, failed |-> failed, succeeded |-> succeeded, data |-> data,
    completedMetrics |-> completedMetrics, emitted |-> emitted, count |-> count,
    stoppedInRun |-> stoppedInRun, invoked |-> invoked, thrown |-> thrown,
    reentered |-> FALSE, pq |-> pq, pageLoad |-> pageLoad,
    critical |-> critical ]

\* ------------------------------------------------------------- helpers
Min(a, b) == IF a <= b THEN a ELSE b

\* Math.max.apply(null, list) for a non-empty set of numbers.
Max(S) == CHOOSE x \in S : \A y \in S : y <= x

\* AutoIncrementingID.get() hands the i-th caller the ID i; indexMetrics
\* stores it under the child's name, a later child overwriting an earlier
\* one of the same name.
RECURSIVE indexFrom(_, _, _)
indexFrom(nm, i, ref) ==
  IF i > Len(metrics) THEN ref
  ELSE indexFrom(nm, i + 1,
         [n \in (DOMAIN ref) \cup {nm[metrics[i]]} |->
            IF n = nm[metrics[i]] THEN i ELSE ref[n]])

indexMetrics(nm) == indexFrom(nm, 1, <<>>)

\* ------------------------------------------------------------- Plugin
\* metric.events: CoreEvents, extended by ReliabilityEvents on an
\* InteractionMetric.
events(m) ==
  IF m \in Interactions THEN CoreEvents \cup ReliabilityEvents ELSE CoreEvents

\* Mutant of validateEvent: the method name is not looked up in the metric's
\* events.
validateEventByName(event, m) == event # "constructor"

\* Plugin.validateEvent(event, metric). `event in metric.events` is also true
\* of "constructor", which every object inherits.
validateEvent(event, m) ==
  event \in events(m) \cup {"constructor"} /\ event # "constructor"

\* methods.forEach(...) of Plugin.register, from method i on: metric.on(event,
\* handler) appends the plugin's handler to the listeners of the event.
RECURSIVE subscribe(_, _, _, _)
subscribe(lis, p, m, i) ==
  IF i > Len(methods[p]) THEN lis
  ELSE subscribe(IF validateEvent(methods[p][i], m)
                 THEN [lis EXCEPT ![m][methods[p][i]] = Append(@, p)]
                 ELSE lis,
                 p, m, i + 1)

\* Mutant of register: the registered flag is not consulted.
registerUnguarded(r, p, m) ==
  [ registered |-> [r.registered EXCEPT ![p] = TRUE],
    owner |-> [r.owner EXCEPT ![p] = m],
    listeners |-> subscribe(r.listeners, p, m, 1) ]

\* Mutant of register: only a second registration on the same metric is
\* turned away.
registerPerMetric(r, p, m) ==
  IF r.registered[p] /\ r.owner[p] = m THEN r
  ELSE [ registered |-> [r.registered EXCEPT ![p] = TRUE],
         owner |-> [r.owner EXCEPT ![p] = m],
         listeners |-> subscribe(r.listeners, p, m, 1) ]

\* Plugin.register(metric), on the registrations r = [registered, owner,
\* listeners]: a registered plugin warns and returns.
register(r, p, m) ==
  IF r.registered[p] THEN r
  ELSE [ registered |-> [r.registered EXCEPT ![p] = TRUE],
         owner |-> [r.owner EXCEPT ![p] = m],
         listeners |-> subscribe(r.listeners, p, m, 1) ]

\* Metric.registerPlugins(): register every plugin of the metric's table,
\* from entry i on.
RECURSIVE registerPlugins(_, _, _, _)
registerPlugins(r, table, m, i) ==
  IF i > Len(table[m]) THEN r
  ELSE registerPlugins(register(r, table[m][i], m), table, m, i + 1)

\* Mutant of constructed: the experience's listeners come before the
\* handlers of the children's plugins.
constructedExperienceFirst(table) ==
  LET none == [ registered |-> [p \in AllPlugins |-> FALSE],
                owner |-> [p \in AllPlugins |-> None],
                listeners |-> [m \in Metrics |-> [e \in Events |-> <<>>]] ]
      a == registerPlugins(none, table, metrics[1], 1)
      b == registerPlugins(a, table, metrics[2], 1)
      e == registerPlugins(b, table, Experience, 1)
  IN [e EXCEPT !.listeners =
        [m \in Metrics |-> [ev \in Events |->
           IF m \in Children /\ ev \in {"start", "stop"}
           THEN <<Experience>> \o e.listeners[m][ev]
           ELSE e.listeners[m][ev]]]]

\* The registrations after the constructors of the children and then of the
\* experience ran with the plugin tables: each constructor registers its
\* plugins, and the experience's constructor then installs its stop and
\* start listeners on every child.
constructed(table) ==
  LET none == [ registered |-> [p \in AllPlugins |-> FALSE],
                owner |-> [p \in AllPlugins |-> None],
                listeners |-> [m \in Metrics |-> [e \in Events |-> <<>>]] ]
      a == registerPlugins(none, table, metrics[1], 1)
      b == registerPlugins(a, table, metrics[2], 1)
      e == registerPlugins(b, table, Experience, 1)
  IN [e EXCEPT !.listeners =
        [m \in Metrics |-> [ev \in Events |->
           IF m \in Children /\ ev \in {"start", "stop"}
           THEN Append(e.listeners[m][ev], Experience)
           ELSE e.listeners[m][ev]]]]

\* ------------------------------------------------------------- ProcessingQueue
\* A ProcessingQueue q: queue holds the items; scheduler is the timer of the
\* scheduled flush (0 for null); listening tells whether listenForSessionEnd is
\* subscribed to visibilitychange; timers are the live timeouts with the time
\* they are due at; promises are the promises enqueue returned, in order
\* ("pending", "true" or "false"); inflight are the requests Beaconer.send has
\* not answered, each with the promise its answer resolves (0 for none);
\* sent are the payloads of all requests issued.
NewQueue ==
  [ queue |-> <<>>, scheduler |-> 0, listening |-> FALSE, timers |-> <<>>,
    promises |-> <<>>, inflight |-> {}, sent |-> <<>> ]

\* Metric.toJSON() of metric m in state s. The plugins entry is a reference
\* to the plugin table and is left out.
toJSON(s, m) ==
  [ name |-> name[m], startTime |-> s.metric[m].startTime,
    stopTime |-> s.metric[m].stopTime, duration |-> s.metric[m].duration,
    status |-> s.metric[m].status ]

\* ProcessingQueue.cancel()
cancel(q) ==
  IF q.scheduler # 0
  THEN [q EXCEPT !.timers = [n \in DOMAIN @ \ {q.scheduler} |-> @[n]],
                 !.scheduler = 0,
                 !.listening = FALSE]
  ELSE q

\* Mutant of schedule: the timer of the previous enqueue is left running.
scheduleWithoutCancel(q, time) ==
  LET n == Len(q.promises) + 1
  IN [q EXCEPT !.promises = Append(@, "pending"),
               !.scheduler = n,
               !.timers = (n :> time + Delay) @@ @,
               !.listening = TRUE]

\* ProcessingQueue.schedule() at the given time: the n-th call returns the
\* n-th promise and starts the timer n.
schedule(q, time) ==
  LET c == cancel(q)
      n == Len(c.promises) + 1
  IN [c EXCEPT !.promises = Append(@, "pending"),
               !.scheduler = n,
               !.timers = (n :> time + Delay) @@ @,
               !.listening = TRUE]

\* ProcessingQueue.enqueue(item), the item being the JSON of a metric. The
\* entry is tagged with the number of the enqueue call and its time.
enqueue(q, json, time) ==
  schedule([q EXCEPT !.queue = Append(@, [id |-> Len(q.promises) + 1,
                                          at |-> time,
                                          json |-> json])], time)

\* Mutant of beacon: the scheduled flush is not cancelled.
beaconWithoutCancel(q, n) ==
  IF q.queue = <<>>
  THEN IF n = 0 THEN q ELSE [q EXCEPT !.promises[n] = "true"]
  ELSE [q EXCEPT !.inflight = @ \cup {[payload |-> q.queue, promise |-> n]},
                 !.sent = Append(@, q.queue)]

\* ProcessingQueue.beacon() up to its await, n being the promise that the
\* caller resolves with its result (0 when the result is dropped).
beacon(q, n) ==
  LET c == cancel(q)
  IN IF c.queue = <<>>
     THEN IF n = 0 THEN c ELSE [c EXCEPT !.promises[n] = "true"]
     ELSE [c EXCEPT !.inflight = @ \cup {[payload |-> c.queue, promise |-> n]},
                    !.sent = Append(@, c.queue)]

\* ProcessingQueue.beacon() from its await on: Beaconer.send answered the
\* request r with success.
answered(q, r, success) ==
  LET c == [q EXCEPT !.queue = <<>>, !.inflight = @ \ {r}]
  IN IF r.promise = 0 THEN c
     ELSE [c EXCEPT !.promises[r.promise] = IF success THEN "true" ELSE "false"]

\* ProcessingQueue.listenForSessionEnd(), the document's visibilityState
\* being v.
listenForSessionEnd(q, v) == IF v = "hidden" THEN beacon(q, 0) ELSE q

\* ------------------------------------------------------------- PageLoadPlugin
\* The fields of a PageLoadPlugin after its constructor and after reset().
NewPageLoad == [transition |-> FALSE, initialLoad |-> FALSE]

\* Mutant of pageLoadStart: the startTime the caller passed is kept.
pageLoadStartKeepsTime(s, m) ==
  [s EXCEPT !.pageLoad = [transition |-> timing # 0, initialLoad |-> timing = 0]]

\* PageLoadPlugin.start(metric)
pageLoadStart(s, m) ==
  [s EXCEPT !.metric[m].startTime = timing,
            !.pageLoad = [transition |-> timing # 0, initialLoad |-> timing = 0]]

\* PageLoadPlugin.reset()
pageLoadReset(s) == [s EXCEPT !.pageLoad = NewPageLoad]

\* ------------------------------------------------------------- CriticalResourcePlugin
\* Strings the plugin takes apart are sequences of characters.
\* The extensions of `new CriticalResourcePlugin()`: "js" and "css".
extensions == { <<"j", "s">>, <<"c", "s", "s">> }

\* CriticalResourcePlugin.browserSupport where window.performance exists.
browserSupport == TRUE

\* str.split(/[#?]/)[0]
beforeQuery(str) ==
  LET marks == {i \in DOMAIN str : str[i] \in {"#", "?"}}
  IN IF marks = {} THEN str
     ELSE SubSeq(str, 1, (CHOOSE i \in marks : \A j \in marks : i <= j) - 1)

\* str.split(".").pop()
afterLastDot(str) ==
  LET dots == {i \in DOMAIN str : str[i] = "."}
  IN IF dots = {} THEN str
     ELSE SubSeq(str, (CHOOSE i \in dots : \A j \in dots : j <= i) + 1, Len(str))

\* str.trim()
trim(str) ==
  LET ink == {i \in DOMAIN str : str[i] # " "}
  IN IF ink = {} THEN <<>>
     ELSE SubSeq(str, CHOOSE i \in ink : \A j \in ink : i <= j,
                      CHOOSE i \in ink : \A j \in ink : j <= i)

\* Mutant of parseExtension: the query and the fragment are not cut off.
parseExtensionWithQuery(url) == trim(afterLastDot(url))

\* CriticalResourcePlugin.parseExtension(url)
parseExtension(url) == trim(afterLastDot(beforeQuery(url)))

\* The greatest common divisor of two naturals.
RECURSIVE gcd(_, _)
gcd(a, b) == IF b = 0 THEN a ELSE gcd(b, a % b)

\* The number a / b (b > 0), a fraction in lowest terms.
fraction(a, b) == [num |-> a \div gcd(a, b), den |-> b \div gcd(a, b)]

\* The fields of a CriticalResourcePlugin after its constructor and after
\* reset().
NewCritical == [cacheRate |-> fraction(0, 1), criticalSize |-> 0]

\* The loop of iterateResources from the i-th resource on.
RECURSIVE iterate(_, _, _, _, _)
iterate(startTime, stopTime, i, cachedSize, criticalSize) ==
  IF i > Len(resources)
  THEN [ criticalSize |-> criticalSize,
         cacheRate |-> IF criticalSize = 0 THEN fraction(100, 1)
                       ELSE fraction(cachedSize * 100, criticalSize) ]
  ELSE LET r == resources[i]
       IN IF r.fetchStart < startTime \/ r.responseEnd > stopTime
          THEN iterate(startTime, stopTime, i + 1, cachedSize, criticalSize)
          ELSE IF parseExtension(r.name) \notin extensions
          THEN iterate(startTime, stopTime, i + 1, cachedSize, criticalSize)
          ELSE iterate(startTime, stopTime, i + 1,
                       IF r.transferSize = 0 /\ r.decodedBodySize > 0
                       THEN cachedSize + r.decodedBodySize ELSE cachedSize,
                       criticalSize + r.decodedBodySize)

\* Mutant of iterateResources: resources still loading at the stop count.
iterateResourcesFromStart(startTime, stopTime) ==
  IF ~browserSupport THEN [cacheRate |-> fraction(0, 1), criticalSize |-> 0]
  ELSE iterate(startTime, MaxTime + 1, 1, 0, 0)

\* CriticalResourcePlugin.iterateResources(startTime, stopTime)
iterateResources(startTime, stopTime) ==
  IF ~browserSupport THEN [cacheRate |-> fraction(0, 1), criticalSize |-> 0]
  ELSE iterate(startTime, stopTime, 1, 0, 0)

\* CriticalResourcePlugin.stop(metric)
resourcesStop(s, m) ==
  [s EXCEPT !.critical = iterateResources(s.metric[m].startTime,
                                          s.metric[m].stopTime)]

\* CriticalResourcePlugin.reset()
resourcesReset(s) == [s EXCEPT !.critical = NewCritical]

\* ------------------------------------------------------------- MetricFactory
\* The plugin classes a factory table names.
Classes == {"ReporterPlugin", "PageLoadPlugin"}

\* A plugin instance constructed from class proto, with a ProcessingQueue when
\* queued, not registered yet.
NewPlugin(proto, queued) ==
  [proto |-> proto, queued |-> queued, registered |-> FALSE]

\* `new MetricFactory(factories, Queue)`: factories lists the keys of the
\* table with their classes in property order, Queue tells whether a
\* ProcessingQueue was given. instances are the plugin instances constructed
\* so far; the first is one the caller has constructed to pass along.
\* created are the metrics constructed, each with its plugin table (keys and
\* instances in property order); calls counts the create calls.
NewFactory(factories, Queue) ==
  [ factories |-> factories, Queue |-> Queue,
    instances |-> <<NewPlugin("PageLoadPlugin", FALSE)>>,
    created |-> <<>>, calls |-> 0 ]

\* injection[key] = instance: an existing key keeps its place.
assign(injection, key, instance) ==
  IF \E j \in DOMAIN injection : injection[j].key = key
  THEN [j \in DOMAIN injection |->
          IF injection[j].key = key THEN [key |-> key, instance |-> instance]
          ELSE injection[j]]
  ELSE Append(injection, [key |-> key, instance |-> instance])

\* Mutant of initializePlugins: a ReporterPlugin is constructed whether or
\* not a ProcessingQueue was given.
RECURSIVE initializePluginsUnchecked(_, _, _)
initializePluginsUnchecked(f, injection, i) ==
  IF i > Len(f.factories)
  THEN [instances |-> f.instances, injection |-> injection, thrown |-> FALSE]
  ELSE LET PluginProto == f.factories[i].proto
           made == NewPlugin(PluginProto,
                             PluginProto = "ReporterPlugin" /\ f.Queue)
       IN initializePluginsUnchecked(
            [f EXCEPT !.instances = Append(@, made)],
            assign(injection, f.factories[i].key, Len(f.instances) + 1), i + 1)

\* MetricFactory.initializePlugins(factories, plugins, Queue), from the i-th
\* key of factories on, injection being the caller's plugins.
RECURSIVE initializePlugins(_, _, _)
initializePlugins(f, injection, i) ==
  IF i > Len(f.factories)
  THEN [instances |-> f.instances, injection |-> injection, thrown |-> FALSE]
  ELSE LET PluginProto == f.factories[i].proto
       IN IF PluginProto = "ReporterPlugin" /\ ~f.Queue
          THEN [instances |-> f.instances, injection |-> injection,
                thrown |-> TRUE]
          ELSE initializePlugins(
                 [f EXCEPT !.instances =
                    Append(@, NewPlugin(PluginProto, PluginProto = "ReporterPlugin"))],
                 assign(injection, f.factories[i].key, Len(f.instances) + 1),
                 i + 1)

\* The constructor of the created metric registers the plugins of its table.
registerAll(instances, injection) ==
  [n \in DOMAIN instances |->
     IF \E j \in DOMAIN injection : injection[j].instance = n
     THEN [instances[n] EXCEPT !.registered = TRUE]
     ELSE instances[n]]

\* createMetric / createInteraction / createExperience (kind) called with
\* the caller's plugins on factory f.
create(f, kind, plugins) ==
  LET r == initializePlugins(f, plugins, 1)
      g == [f EXCEPT !.calls = @ + 1]
  IN IF r.thrown
     THEN [factory |-> [g EXCEPT !.instances = r.instances], thrown |-> TRUE]
     ELSE [factory |->
             [g EXCEPT !.instances = registerAll(r.instances, r.injection),
                       !.created = Append(@, [kind |-> kind,
                                              plugins |-> r.injection])],
           thrown |-> FALSE]

\* ------------------------------------------------------------- event log
\* What one emit adds to the record of emitted events: the event is appended
\* to the events of the running call; a reset event of m starts m's count of
\* start/stop events afresh, and a reset event of the experience starts a
\* new run of its children.
record(s, m, event) ==
  [s EXCEPT
     !.emitted = Append(@, <<m, event>>),
     !.count[m] =
        IF event = "reset" THEN [start |-> 0, stop |-> 0]
        ELSE IF event = "start" THEN [@ EXCEPT !.start = @ + 1]
        ELSE IF event = "stop" THEN [@ EXCEPT !.stop = @ + 1]
        ELSE @,
     !.stoppedInRun =
        IF event = "reset" /\ m = Experience THEN {}
        ELSE IF event = "stop" /\ m \in Children THEN @ \cup {m}
        ELSE @]

\* ------------------------------------------------------------- Metric
RECURSIVE emit(_, _, _)

\* Mutant of start: the idle guard is missing.
startUnguarded(s, m, time) ==
  emit([s EXCEPT !.metric[m].startTime = time,
                 !.metric[m].status = "inProgress"], m, "start")

\* Mutant of start: the fields are written after the start event is emitted.
startEmitsFirst(s, m, time) ==
  IF s.metric[m].status # "idol" THEN s
  ELSE [emit(s, m, "start") EXCEPT !.metric[m].startTime = time,
                                   !.metric[m].status = "inProgress"]

\* Metric.start(time)
start(s, m, time) ==
  IF s.metric[m].status # "idol" THEN s
  ELSE emit([s EXCEPT !.metric[m].startTime = time,
                      !.metric[m].status = "inProgress"], m, "start")

\* Mutant of stop: the inProgress guard is missing.
stopUnguarded(s, m, time, status) ==
  emit([s EXCEPT !.metric[m].stopTime = time,
                 !.metric[m].duration = time - s.metric[m].startTime,
                 !.metric[m].status = status], m, "stop")

\* Mutant of stop: the duration is the stop time, not the elapsed time.
stopDurationFromZero(s, m, time, status) ==
  IF s.metric[m].status # "inProgress" THEN s
  ELSE emit([s EXCEPT !.metric[m].stopTime = time,
                      !.metric[m].duration = time,
                      !.metric[m].status = status], m, "stop")

\* Mutant of stop: an idle metric can be stopped too.
stopWithoutStart(s, m, time, status) ==
  IF s.metric[m].status \notin {"idol", "inProgress"} THEN s
  ELSE emit([s EXCEPT !.metric[m].stopTime = time,
                      !.metric[m].duration = time - s.metric[m].startTime,
                      !.metric[m].status = status], m, "stop")

\* Metric.stop(time, status)
stop(s, m, time, status) ==
  IF s.metric[m].status # "inProgress" THEN s
  ELSE emit([s EXCEPT !.metric[m].stopTime = time,
                      !.metric[m].duration = time - s.metric[m].startTime,
                      !.metric[m].status = status], m, "stop")

\* Mutant of reset: an idle metric is left alone and emits nothing.
resetUnlessIdle(s, m) ==
  IF s.metric[m].status = "idol" THEN s
  ELSE emit([s EXCEPT !.metric[m] = NewMetric], m, "reset")

\* Mutant of reset: the duration of the last run is kept.
resetKeepsDuration(s, m) ==
  emit([s EXCEPT !.metric[m].stopTime = 0,
                 !.metric[m].startTime = 0,
                 !.metric[m].status = "idol"], m, "reset")

\* Mutant of reset: the entries queued for the flush are dropped and the
\* flush is cancelled.
resetCancelsFlush(s, m) ==
  emit([s EXCEPT !.metric[m] = NewMetric,
                 !.pq = cancel([@ EXCEPT !.queue = <<>>])], m, "reset")

\* Metric.reset()
reset(s, m) ==
  emit([s EXCEPT !.metric[m].duration = 0,
                 !.metric[m].stopTime = 0,
                 !.metric[m].startTime = 0,
                 !.metric[m].status = "idol"], m, "reset")

\* ------------------------------------------------------------- ExperienceMetric
\* Mutant of listenForStarts: later child starts never lower the startTime.
listenForStartsFirstOnly(s, m) ==
  IF s.metric[Experience].status = "idol"
  THEN start(s, Experience, s.metric[m].startTime)
  ELSE s

\* Mutant of listenForStarts: a later child start is aligned with the
\* experience's startTime.
listenForStartsAligning(s, m) ==
  IF s.metric[Experience].status = "idol"
  THEN start(s, Experience, s.metric[m].startTime)
  ELSE [s EXCEPT !.metric[Experience].startTime = Min(s.metric[m].startTime, @),
                 !.metric[m].startTime =
                    Min(s.metric[m].startTime, s.metric[Experience].startTime)]

\* The start listener listenForStarts installs on child m.
listenForStarts(s, m) ==
  IF s.metric[Experience].status = "idol"
  THEN start(s, Experience, s.metric[m].startTime)
  ELSE [s EXCEPT !.metric[Experience].startTime = Min(s.metric[m].startTime, @)]

\* Mutant of listenForStops: completions are counted per stop event, so a
\* child that stops again counts as one more completed child.
listenForStopsRecounting(s, m) ==
  LET ID == reference[name[m]]
      n == Cardinality(s.completedMetrics) + 1
      t == [s EXCEPT !.completedMetrics = @ \cup {ID}]
  IN IF n = Len(metrics)
     THEN stop(t, Experience,
               Max({t.metric[c].stopTime : c \in Children}), "complete")
     ELSE t

\* The stop listener listenForStops installs on child m.
listenForStops(s, m) ==
  LET ID == reference[name[m]] IN
  IF ID \in s.completedMetrics THEN s
  ELSE LET t == [s EXCEPT !.completedMetrics = @ \cup {ID}] IN
       IF Cardinality(t.completedMetrics) = Len(metrics)
       THEN stop(t, Experience,
                 Max({t.metric[c].stopTime : c \in Children}), "complete")
       ELSE t

\* What a plugin handler is handed: the metric. seen is what the handler
\* reads from it when it runs.
seen(s, m) ==
  IF m \in Interactions
  THEN <<s.metric[m].status, s.succeeded[m], s.failed[m], s.data[m]>>
  ELSE <<s.metric[m].status>>

\* The handlers of the re-entrant plugin: the first one invoked during a call
\* calls the metric's start (stop) with a later time.
callback(s, m, event) ==
  IF s.reentered THEN s
  ELSE IF event = "start"
  THEN start([s EXCEPT !.reentered = TRUE], m, s.metric[m].startTime + 1)
  ELSE stop([s EXCEPT !.reentered = TRUE], m, s.metric[m].stopTime + 1, "complete")

\* The handler plugin p bound to (m, event): it reads the metric; the handler
\* of the re-entrant plugin then calls back into the metric, the stop handler
\* of the ReporterPlugin enqueues the metric, the handlers of the
\* PageLoadPlugin and of the CriticalResourcePlugin write their fields, and
\* the handler of a faulty plugin throws.
handler(s, p, m, event) ==
  LET t == [s EXCEPT !.invoked = Append(@, <<p, m, event, seen(s, m)>>)]
  IN IF p = Reentrant THEN callback(t, m, event)
     ELSE IF p = Reporter THEN [t EXCEPT !.pq = enqueue(@, toJSON(t, m), now)]
     ELSE IF p = PageLoad
     THEN IF event = "start" THEN pageLoadStart(t, m) ELSE pageLoadReset(t)
     ELSE IF p = Resources
     THEN IF event = "stop" THEN resourcesStop(t, m) ELSE resourcesReset(t)
     ELSE [t EXCEPT !.thrown = p \in faulty]

\* The listeners of (m, event) from the i-th on, run synchronously in
\* registration order; an exception thrown by one of them ends the loop.
RECURSIVE dispatch(_, _, _, _)
dispatch(s, m, event, i) ==
  IF i > Len(listeners[m][event]) THEN s
  ELSE LET l == listeners[m][event][i]
           t == IF l # Experience THEN handler(s, l, m, event)
                ELSE IF event = "start" THEN listenForStarts(s, m)
                ELSE listenForStops(s, m)
       IN IF t.thrown THEN t ELSE dispatch(t, m, event, i + 1)

\* Mutant of emit: the listeners of stop are dropped after the first stop
\* they handled, so a stop after a reset reaches none.
emitOnce(s, m, event) ==
  IF event = "stop" /\ m \in s.stoppedInRun
  THEN record(s, m, event)
  ELSE dispatch(record(s, m, event), m, event, 1)

\* EventEmitter.emit(event, metric). Metric calls it as this.emit and
\* InteractionMetric as this.emitter.emit; both are taken to reach the
\* listeners subscribed with metric.on.
emit(s, m, event) == dispatch(record(s, m, event), m, event, 1)

\* ------------------------------------------------------------- InteractionMetric
\* Mutant of succeed: the data argument is not stored.
succeedDropsData(s, m, d, stopTime) ==
  LET t == [s EXCEPT !.failed[m] = FALSE, !.succeeded[m] = TRUE]
      u == stop(t, m, stopTime, "complete")
  IN IF u.thrown THEN u ELSE emit(u, m, "success")

\* Mutant of succeed: a metric that is not in progress is left alone.
succeedGuarded(s, m, d, stopTime) ==
  IF s.metric[m].status # "inProgress" THEN s
  ELSE LET t == [s EXCEPT !.data[m] = d, !.failed[m] = FALSE, !.succeeded[m] = TRUE]
           u == stop(t, m, stopTime, "complete")
       IN IF u.thrown THEN u ELSE emit(u, m, "success")

\* InteractionMetric.succeed(data, stopTime). An exception leaving
\* super.stop leaves succeed before the success event.
succeed(s, m, d, stopTime) ==
  LET t == [s EXCEPT !.data[m] = d, !.failed[m] = FALSE, !.succeeded[m] = TRUE]
      u == stop(t, m, stopTime, "complete")
  IN IF u.thrown THEN u ELSE emit(u, m, "success")

\* Mutant of fail: the failed status is not passed on to stop.
failCompletes(s, m, d, stopTime) ==
  LET t == [s EXCEPT !.data[m] = d, !.failed[m] = TRUE, !.succeeded[m] = FALSE]
      u == stop(t, m, stopTime, "complete")
  IN IF u.thrown THEN u ELSE emit(u, m, "failure")

\* Mutant of fail: the failure event is emitted before the stop.
failureBeforeStop(s, m, d, stopTime) ==
  LET t == [s EXCEPT !.data[m] = d, !.failed[m] = TRUE, !.succeeded[m] = FALSE]
      u == emit(t, m, "failure")
  IN IF u.thrown THEN u ELSE stop(u, m, stopTime, "failed")

\* Mutant of fail: succeeded is left as it is.
failKeepsSucceeded(s, m, d, stopTime) ==
  LET t == [s EXCEPT !.data[m] = d, !.failed[m] = TRUE]
      u == stop(t, m, stopTime, "failed")
  IN IF u.thrown THEN u ELSE emit(u, m, "failure")

\* InteractionMetric.fail(data, stopTime). An exception leaving super.stop
\* leaves fail before the failure event.
fail(s, m, d, stopTime) ==
  LET t == [s EXCEPT !.data[m] = d, !.failed[m] = TRUE, !.succeeded[m] = FALSE]
      u == stop(t, m, stopTime, "failed")
  IN IF u.thrown THEN u ELSE emit(u, m, "failure")

\* Mutant of reset: the outcome fields are cleared after the base reset has
\* emitted the reset event.
interactionResetLate(s, m) ==
  LET u == reset(s, m)
  IN IF u.thrown THEN u
     ELSE [u EXCEPT !.failed[m] = FALSE, !.data[m] = Undefined,
                    !.succeeded[m] = FALSE]

\* InteractionMetric.reset()
interactionReset(s, m) ==
  reset([s EXCEPT !.failed[m] = FALSE, !.data[m] = Undefined,
                  !.succeeded[m] = FALSE], m)

\* Mutant of childReset: the reset of the base class runs.
childResetBase(s, m) == reset(s, m)

\* metric.reset() on a child: the override of the child's class runs.
childReset(s, m) ==
  IF m \in Interactions THEN interactionReset(s, m) ELSE reset(s, m)

\* metrics.forEach(metric => metric.reset()), from child i on.
RECURSIVE resetFrom(_, _)
resetFrom(s, i) ==
  IF i > Len(metrics) \/ s.thrown THEN s
  ELSE resetFrom(childReset(s, metrics[i]), i + 1)

\* ExperienceMetric.reset()
experienceReset(s) ==
  LET t == resetFrom(s, 1)
      u == IF t.thrown THEN t ELSE reset(t, Experience)
  IN IF u.thrown THEN u ELSE [u EXCEPT !.completedMetrics = {}]

\* ------------------------------------------------------------- calls
\* The state a call starts from: no event emitted, no handler invoked and no
\* exception thrown yet.
Enter == [State EXCEPT !.emitted = <<>>, !.invoked = <<>>, !.thrown = FALSE]

\* The state a call leaves behind.
Commit(t) ==
  /\ metric' = t.metric
  /\ failed' = t.failed
  /\ succeeded' = t.succeeded
  /\ data' = t.data
  /\ completedMetrics' = t.completedMetrics
  /\ emitted' = t.emitted
  /\ count' = t.count
  /\ stoppedInRun' = t.stoppedInRun
  /\ invoked' = t.invoked
  /\ thrown' = t.thrown
  /\ pq' = t.pq
  /\ pageLoad' = t.pageLoad
  /\ critical' = t.critical
  /\ UNCHANGED <<name, reference, registered, listeners, owner, faulty>>
  /\ UNCHANGED <<visibility, now, timing, resources, factory>>

\* The record of the call being made: the method, the metric it is called
\* on, that metric's status when called, whether that metric had already
\* emitted stop in the current run of the experience, and for a register
\* call the plugin and whether it was still unregistered.
Called(op, m) ==
  call' = [op |-> op, target |-> m, from |-> metric[m].status,
           stopped |-> m \in stoppedInRun, plugin |-> None, accepted |-> FALSE]

\* phase: "starts" while only child starts were called since construction or
\* the last experience.reset(); "run" while only child starts and child
\* stops (stop, succeed, fail) were; "other" after anything else.
AfterChildStop == IF phase = "other" THEN "other" ELSE "run"

\* The phase p a call leads to; rerun holds in a phase other than "other"
\* that an experience.reset() began.
Ran(p, began) ==
  /\ phase' = p
  /\ rerun' = (p # "other" /\ (began \/ rerun))

Start(m, time) ==
  /\ Commit(start(Enter, m, time))
  /\ Called("start", m)
  /\ Ran(IF m \in Children THEN phase ELSE "other", FALSE)

Stop(m, time) ==
  /\ Commit(stop(Enter, m, time, "complete"))
  /\ Called("stop", m)
  /\ Ran(IF m \in Children THEN AfterChildStop ELSE "other", FALSE)

Reset(m) ==
  /\ Commit(IF m = Experience THEN experienceReset(Enter) ELSE childReset(Enter, m))
  /\ Called("reset", m)
  /\ Ran(IF m = Experience THEN "starts" ELSE "other", m = Experience)

Succeed(m, d, time) ==
  /\ Commit(succeed(Enter, m, d, time))
  /\ Called("succeed", m)
  /\ Ran(AfterChildStop, FALSE)

Fail(m, d, time) ==
  /\ Commit(fail(Enter, m, d, time))
  /\ Called("fail", m)
  /\ Ran(AfterChildStop, FALSE)

\* plugin.register(metric), called by any code holding the plugin.
Register(p, m) ==
  LET r == register([registered |-> registered, owner |-> owner,
                     listeners |-> listeners], p, m)
  IN /\ registered' = r.registered
     /\ owner' = r.owner
     /\ listeners' = r.listeners
     /\ call' = [op |-> "register", target |-> m, from |-> metric[m].status,
                 stopped |-> m \in stoppedInRun, plugin |-> p,
                 accepted |-> ~registered[p]]
     /\ emitted' = <<>>
     /\ invoked' = <<>>
     /\ thrown' = FALSE
     /\ UNCHANGED << metric, failed, succeeded, data, name, reference,
                     completedMetrics, count, stoppedInRun, phase, rerun, faulty,
                     pq, visibility, now, timing, pageLoad, critical,
                     resources, factory >>

\* The state after `new ExperienceMetric({ name, metrics: [A, B], plugins })`
\* over two freshly constructed children, the children named by nm, the
\* constructors called with the plugin tables of table, and the handlers of
\* the plugins in bad throwing, on a page whose resource entries are loaded,
\* and the MetricFactory made.
Make(nm, table, bad, loaded, made) ==
  /\ metric = [m \in Metrics |-> NewMetric]
  /\ failed = [m \in Interactions |-> FALSE]
  /\ succeeded = [m \in Interactions |-> FALSE]
  /\ data = [m \in Interactions |-> Undefined]
  /\ name = nm
  /\ reference = indexMetrics(nm)
  /\ completedMetrics = {}
  /\ emitted = <<>>
  /\ count = [m \in Metrics |-> [start |-> 0, stop |-> 0]]
  /\ stoppedInRun = {}
  /\ phase = "starts"
  /\ call = [op |-> "new", target |-> Experience, from |-> "idol",
             stopped |-> FALSE, plugin |-> None, accepted |-> FALSE]
  /\ rerun = FALSE
  /\ registered = constructed(table).registered
  /\ listeners = constructed(table).listeners
  /\ owner = constructed(table).owner
  /\ faulty = bad
  /\ invoked = <<>>
  /\ thrown = FALSE
  /\ pq = NewQueue
  /\ visibility = "visible"
  /\ now = 0
  /\ timing = 0
  /\ pageLoad = NewPageLoad
  /\ critical = NewCritical
  /\ resources = loaded
  /\ factory = made

\* The same with a MetricFactory without plugin classes, which has created
\* nothing.
Construct(nm, table, bad, loaded) ==
  Make(nm, table, bad, loaded, NewFactory(<<>>, FALSE))

\* The same on a page that has loaded no resource.
New(nm, table, bad) == Construct(nm, table, bad, <<>>)

\* Metrics constructed without plugins.
Init == \E nm \in NameTables : New(nm, NoPlugins, {})

Next ==
  \/ \E m \in Metrics, time \in Times : Start(m, time)
  \/ \E m \in Metrics, time \in Times : Stop(m, time)
  \/ \E m \in Metrics : Reset(m)
  \/ \E m \in Interactions, time \in Times : Succeed(m, Undefined, time)
  \/ \E m \in Interactions, time \in Times : Fail(m, Undefined, time)

Spec == Init /\ [][Next]_vars

\* The children constructed with distinct names.
DistinctNames ==
  {nm \in NameTables : \A c, d \in Children : c # d => nm[c] # nm[d]}

\* Metrics constructed with plugins whose handlers return.
InitPlugins ==
  \E nm \in DistinctNames, table \in PluginTables : New(nm, table, {})

\* The InteractionMetric is driven with outcome payloads, and plugins are
\* registered on any metric at any time.
NextPlugins ==
  \/ \E m \in Interactions, time \in Times : Start(m, time)
  \/ \E m \in Interactions, time \in Times : Stop(m, time)
  \/ \E m \in Interactions : Reset(m)
  \/ \E m \in Interactions, d \in Payloads, time \in Times : Succeed(m, d, time)
  \/ \E m \in Interactions, d \in Payloads, time \in Times : Fail(m, d, time)
  \/ \E p \in Plugins, m \in Metrics : Register(p, m)

SpecPlugins == InitPlugins /\ [][NextPlugins]_vars

\* Metrics constructed with plugins, the stop handler of one of which throws.
InitFaulty ==
  \E nm \in DistinctNames, table \in PluginTables : New(nm, table, {"stopOnly"})

SpecFaulty == InitFaulty /\ [][NextPlugins]_vars

\* A child constructed with the re-entrant plugin.
InitReentrant ==
  \E nm \in DistinctNames, c \in Children :
    New(nm, [NoPlugins EXCEPT ![c] = <<Reentrant>>], {})

SpecReentrant == InitReentrant /\ [][Next]_vars

\* What the page does to the ProcessingQueue leaves the metrics alone.
Page(op, q) ==
  /\ pq' = q
  /\ call' = [op |-> op, target |-> None, from |-> "idol", stopped |-> FALSE,
              plugin |-> None, accepted |-> FALSE]
  /\ emitted' = <<>>
  /\ invoked' = <<>>
  /\ thrown' = FALSE
  /\ UNCHANGED << metric, failed, succeeded, data, name, reference,
                  completedMetrics, count, stoppedInRun, phase, rerun,
                  registered, listeners, owner, faulty, pageLoad, critical,
                  resources, factory >>

\* The clock advances by a step, unless a timer is due.
Tick ==
  /\ now < MaxTicks * Step
  /\ \A n \in DOMAIN pq.timers : pq.timers[n] > now
  /\ now' = now + Step
  /\ UNCHANGED << metric, failed, succeeded, data, name, reference,
                  completedMetrics, emitted, count, stoppedInRun, phase, call,
                  rerun, registered, listeners, owner, faulty, invoked, thrown,
                  pq, visibility, timing, pageLoad, critical, resources,
                  factory >>

\* The timeout n is due: its callback runs beacon and resolves the promise n
\* with the result.
TimerFire(n) ==
  /\ n \in DOMAIN pq.timers
  /\ pq.timers[n] = now
  /\ Page("timeout", beacon([pq EXCEPT !.timers = [k \in DOMAIN @ \ {n} |-> @[k]]], n))
  /\ UNCHANGED <<visibility, now, timing>>

\* Beaconer.send answers the request r.
Answer(r, success) ==
  /\ r \in pq.inflight
  /\ Page("answer", answered(pq, r, success))
  /\ UNCHANGED <<visibility, now, timing>>

\* The document's visibilityState becomes v and visibilitychange is
\* dispatched to the listener, if it is subscribed.
VisibilityChange(v) ==
  /\ v # visibility
  /\ visibility' = v
  /\ Page("visibilitychange",
          IF pq.listening THEN listenForSessionEnd(pq, v) ELSE pq)
  /\ UNCHANGED <<now, timing>>

\* stop() on a metric the ReporterPlugin reports, while the queue is
\* followed.
StopReported(m) ==
  /\ Len(pq.promises) < MaxEnqueue
  /\ Stop(m, now)

\* The plain Metric constructed with the ReporterPlugin.
InitQueue ==
  \E nm \in DistinctNames, m \in Plain :
    New(nm, [NoPlugins EXCEPT ![m] = <<Reporter>>], {})

\* The reported metric is driven with the clock's time (the default argument
\* of start and stop, performance.now()) while time passes, the flush timer fires,
\* requests are answered and the page is hidden and shown.
NextQueue ==
  \/ \E m \in Plain : Start(m, now)
  \/ \E m \in Plain : StopReported(m)
  \/ \E m \in Plain : Reset(m)
  \/ Tick
  \/ \E n \in 1 .. MaxEnqueue : TimerFire(n)
  \/ \E r \in pq.inflight, success \in BOOLEAN : Answer(r, success)
  \/ \E v \in {"visible", "hidden"} : VisibilityChange(v)

SpecQueue == InitQueue /\ [][NextQueue]_vars

\* PageLoadPlugin.setTiming(), called by history.pushState and on popstate
\* once PageLoadPlugin.enable() has run.
setTiming ==
  /\ timing' = now
  /\ Page("navigation", pq)
  /\ UNCHANGED <<visibility, now>>

\* A plain Metric constructed with a PageLoadPlugin.
InitPageLoad ==
  \E nm \in DistinctNames, m \in Plain :
    New(nm, [NoPlugins EXCEPT ![m] = <<PageLoad>>], {})

\* The metric is started with the times its callers pass and stopped with
\* those or the clock's time, it and its experience are reset, while time
\* passes and the page navigates.
NextPageLoad ==
  \/ \E m \in Plain, time \in Times : Start(m, time)
  \/ \E m \in Plain, time \in Times \cup {now} : Stop(m, time)
  \/ \E m \in Plain \cup {Experience} : Reset(m)
  \/ Tick
  \/ setTiming

SpecPageLoad == InitPageLoad /\ [][NextPageLoad]_vars

\* The URLs of the resources a page loads: a script with a query, a
\* stylesheet with a fragment, and an image.
Script == <<"a", ".", "j", "s", "?", "v", ".", "1">>
Style == <<"a", ".", "c", "s", "s", "#", "b">>
Image == <<"a", ".", "p", "n", "g">>
Urls == {Script, Style, Image}

\* The decoded sizes of the resources of the page, in bytes.
Sizes == <<100, 200, 700>>

\* The resource entries of a page: one entry per size, with any URL, fetched
\* (and answered at once) at any time, from the network or from the cache.
Loaded ==
  { [i \in DOMAIN Sizes |->
       [ name |-> url[i], fetchStart |-> time[i], responseEnd |-> time[i],
         transferSize |-> IF cached[i] THEN 0 ELSE Sizes[i],
         decodedBodySize |-> Sizes[i] ]] :
      url \in [DOMAIN Sizes -> Urls], time \in [DOMAIN Sizes -> Times],
      cached \in [DOMAIN Sizes -> BOOLEAN] }

\* A plain Metric constructed with a CriticalResourcePlugin on a page that has
\* loaded its resources.
InitResources ==
  \E nm \in DistinctNames, m \in Plain, loaded \in Loaded :
    Construct(nm, [NoPlugins EXCEPT ![m] = <<Resources>>], {}, loaded)

NextResources ==
  \/ \E m \in Plain, time \in Times : Start(m, time)
  \/ \E m \in Plain, time \in Times : Stop(m, time)
  \/ \E m \in Plain : Reset(m)

SpecResources == InitResources /\ [][NextResources]_vars

\* An InteractionMetric constructed with the ReporterPlugin.
InitReported ==
  \E nm \in DistinctNames, m \in Interactions :
    New(nm, [NoPlugins EXCEPT ![m] = <<Reporter>>], {})

\* The reported InteractionMetric is driven and it and its experience are
\* reset while the queue is followed; the flush timer does not fire yet.
NextReported ==
  \/ \E m \in Interactions, time \in Times : Start(m, time)
  \/ \E m \in Interactions, time \in Times :
       Len(pq.promises) < MaxEnqueue /\ Stop(m, time)
  \/ \E m \in Interactions, d \in Payloads, time \in Times :
       Len(pq.promises) < MaxEnqueue /\ Succeed(m, d, time)
  \/ \E m \in Interactions, d \in Payloads, time \in Times :
       Len(pq.promises) < MaxEnqueue /\ Fail(m, d, time)
  \/ \E m \in Interactions \cup {Experience} : Reset(m)

SpecReported == InitReported /\ [][NextReported]_vars

\* The tables of plugin classes a factory is made with: up to two keys.
Keys == {"first", "second"}
FactoryTables ==
  {<<>>}
    \cup {<<[key |-> k, proto |-> c]>> : k \in Keys, c \in Classes}
    \cup {<<[key |-> kl[1], proto |-> c], [key |-> kl[2], proto |-> d]>> :
            kl \in {x \in Keys \X Keys : x[1] # x[2]},
            c \in Classes, d \in Classes}

\* The plugins a caller passes to a create call: none, its own plugin under a
\* key of its own, or under a key of the factory's.
CallerPlugins ==
  {<<>>, <<[key |-> "own", instance |-> 1]>>, <<[key |-> "first", instance |-> 1]>>}

\* factory.createMetric(name, plugins) and its like.
Create(kind, plugins) ==
  LET r == create(factory, kind, plugins)
  IN /\ factory.calls < MaxCreated
     /\ factory' = r.factory
     /\ thrown' = r.thrown
     /\ call' = [op |-> kind, target |-> None, from |-> "idol",
                 stopped |-> FALSE, plugin |-> None, accepted |-> ~r.thrown]
     /\ emitted' = <<>>
     /\ invoked' = <<>>
     /\ UNCHANGED << metric, failed, succeeded, data, name, reference,
                     completedMetrics, count, stoppedInRun, phase, rerun,
                     registered, listeners, owner, faulty, pq, visibility, now,
                     timing, pageLoad, critical, resources >>

\* A MetricFactory made with any table, with or without a ProcessingQueue.
InitFactory ==
  \E nm \in DistinctNames, factories \in FactoryTables, Queue \in BOOLEAN :
    Make(nm, NoPlugins, {}, <<>>, NewFactory(factories, Queue))

NextFactory ==
  \E kind \in {"createMetric", "createInteraction", "createExperience"},
     plugins \in CallerPlugins : Create(kind, plugins)

SpecFactory == InitFactory /\ [][NextFactory]_vars

\* ------------------------------------------------------------- vocabulary
\* How often the last call made m emit event.
Emits(m, event) ==
  Cardinality({i \in DOMAIN emitted : emitted[i] = <<m, event>>})

Stopped(m) == metric[m].status \in {"complete", "failed"}

\* The children that have been started and not reset since.
Started == {c \in Children : metric[c].status # "idol"}

MinOf(S) == CHOOSE x \in S : \A y \in S : x <= y

\* Two child instances were constructed with the same name.
SharedName == \E c, d \in Children : c # d /\ name[c] = name[d]

\* Since construction or the last experience.reset() only the children were
\* driven, and none of them was reset.
OneRun == phase \in {"starts", "run"}

\* The last call was made on a child and made the experience emit stop.
AggregatedStop == call.target \in Children /\ Emits(Experience, "stop") > 0

\* The events of m among the emitted events es, in order.
EventsOf(es, m) ==
  LET OfM(e) == e[1] = m
      own == SelectSeq(es, OfM)
  IN [i \in DOMAIN own |-> own[i][2]]

\* How often es holds the event of m.
EmitsIn(es, m, event) ==
  Cardinality({i \in DOMAIN es : es[i] = <<m, event>>})

\* How often the invocations inv hold the handler of plugin p for (m, event).
InvocationsIn(inv, p, m, event) ==
  Cardinality({i \in DOMAIN inv :
                 inv[i][1] = p /\ inv[i][2] = m /\ inv[i][3] = event})

\* How often plugin p is subscribed to (m, event).
Subscriptions(p, m, event) ==
  Cardinality({i \in DOMAIN listeners[m][event] : listeners[m][event][i] = p})

\* The events plugin p has a handler of its own for.
Overrides(p) == {methods[p][i] : i \in DOMAIN methods[p]} \cap Events

\* In the invocations inv every handler of event first ran before every
\* handler of event second.
InOrder(inv, first, second) ==
  \A i, j \in DOMAIN inv :
    (inv[i][3] = first /\ inv[j][3] = second) => i < j

\* ------------------------------------------------------------- claims

\* C1: for every metric variant, start(t) called on an idle metric sets
\* startTime to t and the status to inProgress, and start(t) called on a
\* metric that is not idle changes no field of any metric and emits no event,
\* so a second start leaves the first call's startTime in place.
Thm_C1_StartOnlyFromIdle ==
  [][\A m \in Metrics :
       (call'.op = "start" /\ call'.target = m) =>
         IF metric[m].status = "idol"
         THEN /\ \A t \in Times : Start(m, t) => metric'[m].startTime = t
              /\ metric'[m].status = "inProgress"
              /\ emitted'[1] = <<m, "start">>
         ELSE /\ metric' = metric
              /\ emitted' = <<>>]_vars

\* C1 witness: start was called on a metric already in progress and nothing
\* was emitted.
Wit_C1_SecondStart ==
  /\ call.op = "start"
  /\ call.from = "inProgress"
  /\ metric[call.target].status = "inProgress"
  /\ emitted = <<>>

\* C2: for every metric variant, stop(t) called on a metric that is not
\* inProgress changes no field of any metric and emits no event; on an idle
\* metric that leaves stopTime 0, duration 0 and status idle.
Thm_C2_StopOnlyFromInProgress ==
  [][\A m \in Metrics :
       (call'.op = "stop" /\ call'.target = m /\ metric[m].status # "inProgress") =>
         /\ metric' = metric
         /\ emitted' = <<>>
         /\ metric[m].status = "idol" =>
              /\ metric'[m].stopTime = 0
              /\ metric'[m].duration = 0
              /\ metric'[m].status = "idol"]_vars

\* C2 witness: stop was called on a metric that had already stopped, and
\* nothing was emitted.
Wit_C2_SecondStop ==
  /\ call.op = "stop"
  /\ call.from = "complete"
  /\ metric[call.target].status = "complete"
  /\ emitted = <<>>

\* C3: on an idle plain Metric, start(t0) followed by stop(t1) with t0 <= t1
\* yields startTime t0, stopTime t1, duration t1 - t0 and status complete.
Thm_C3_RoundTrip ==
  [][\A m \in Plain :
       /\ (call'.op = "start" /\ call'.target = m /\ metric[m].status = "idol") =>
             \A t \in Times :
               Start(m, t) =>
                 metric'[m] = [NewMetric EXCEPT !.startTime = t, !.status = "inProgress"]
       /\ ( /\ call.op = "start" /\ call.target = m /\ call.from = "idol"
            /\ call'.op = "stop" /\ call'.target = m ) =>
             \A t \in Times :
               (metric[m].startTime <= t /\ Stop(m, t)) =>
                 metric'[m] = [startTime |-> metric[m].startTime, stopTime |-> t,
                               duration |-> t - metric[m].startTime,
                               status |-> "complete"]]_vars

\* C3 witness: a plain Metric was stopped while in progress, at or after its
\* start time.
Wit_C3_RoundTrip ==
  /\ call.op = "stop"
  /\ call.target \in Plain
  /\ call.from = "inProgress"
  /\ metric[call.target].status = "complete"
  /\ metric[call.target].startTime > 0
  /\ metric[call.target].stopTime >= metric[call.target].startTime

\* C4 (as claimed): every metric whose status is complete or failed has
\* duration = stopTime - startTime.
Cex_C4_DurationInvariant ==
  \A m \in Metrics :
    Stopped(m) => metric[m].duration = metric[m].stopTime - metric[m].startTime

\* C5: reset() called from any status leaves startTime, stopTime and duration
\* 0 and the status idle, and makes the metric emit exactly one reset event.
Thm_C5_Reset ==
  call.op = "reset" =>
    /\ metric[call.target] = NewMetric
    /\ Emits(call.target, "reset") = 1

\* C5 witness: reset was called on a metric that was already idle and a reset
\* event was emitted.
Wit_C5_ResetOnIdle ==
  /\ call.op = "reset"
  /\ call.from = "idol"
  /\ metric[call.target] = NewMetric
  /\ Emits(call.target, "reset") = 1

Thm_C7_EarliestStart ==
  phase = "starts" =>
    IF Started = {}
    THEN metric[Experience] = NewMetric /\ count[Experience].start = 0
    ELSE /\ metric[Experience].status = "inProgress"
         /\ metric[Experience].startTime = MinOf({metric[c].startTime : c \in Started})
         /\ count[Experience].start = 1

\* C7 witness: the child started last has the strictly earliest startTime,
\* and the experience has taken it.
Wit_C7_LaterButEarlier ==
  /\ phase = "starts"
  /\ Started = Children
  /\ call.op = "start"
  /\ call.target \in Children
  /\ call.from = "idol"
  /\ \A c \in Children \ {call.target} :
       metric[c].startTime > metric[call.target].startTime
  /\ metric[Experience].startTime = metric[call.target].startTime

\* C8 (as claimed): in a run in which every child has been started, the
\* experience has emitted stop exactly once if every child has stopped and
\* not at all otherwise, and once it has, its stopTime is the maximum
\* stopTime of the children.
Cex_C8_LatestStop ==
  (OneRun /\ Started = Children) =>
    IF \A c \in Children : Stopped(c)
    THEN /\ count[Experience].stop = 1
         /\ metric[Experience].status = "complete"
         /\ metric[Experience].stopTime = Max({metric[c].stopTime : c \in Children})
    ELSE count[Experience].stop = 0

\* C9 (as claimed): with two child instances of the same name, the experience
\* has emitted stop (once) exactly when every child instance has stopped.
Cex_C9_PerInstance ==
  (OneRun /\ SharedName) =>
    count[Experience].stop = (IF \A c \in Children : Stopped(c) THEN 1 ELSE 0)

\* C10: a stop of a child makes the experience stop only if every child has
\* emitted stop in the current run of the experience, however often the
\* other children stopped, were reset and stopped again.
Thm_C10_CountedOnce ==
  AggregatedStop => stoppedInRun = Children

\* C10 witness: a child that had already emitted stop in this run was
\* stopped again while another child has not stopped, and the experience is
\* still in progress.
Wit_C10_StoppedAgain ==
  /\ call.op \in {"stop", "succeed", "fail"}
  /\ call.target \in Children
  /\ call.from = "inProgress"
  /\ call.stopped
  /\ Emits(call.target, "stop") = 1
  /\ stoppedInRun # Children
  /\ metric[Experience].status = "inProgress"
  /\ count[Experience].stop = 0

\* C11 (as claimed): experience.reset() leaves every child and the
\* experience idle with zeroed times and the completed-set empty, and in the
\* run of the children that follows it the experience has emitted start
\* exactly once as soon as a child has started, with the minimum startTime of
\* the started children, and has emitted stop exactly once when every child
\* has stopped and not before, with the maximum stopTime of the children.
Cex_C11_ResetThenRun ==
  /\ (call.op = "reset" /\ call.target = Experience) =>
        /\ \A m \in Metrics : metric[m] = NewMetric
        /\ completedMetrics = {}
  /\ rerun =>
        /\ count[Experience].start = (IF Started = {} THEN 0 ELSE 1)
        /\ Started # {} =>
             metric[Experience].startTime = MinOf({metric[c].startTime : c \in Started})
        /\ count[Experience].stop = (IF \A c \in Children : Stopped(c) THEN 1 ELSE 0)
        /\ (\A c \in Children : Stopped(c)) =>
             metric[Experience].stopTime = Max({metric[c].stopTime : c \in Children})

\* C12 (as claimed): stop() called on an experience that is in progress
\* leaves no child in progress.
Cex_C12_StopCascades ==
  (call.op = "stop" /\ call.target = Experience /\ call.from = "inProgress") =>
    \A c \in Children : metric[c].status # "inProgress"

\* C13: fail(payload, t) called on an InteractionMetric in progress leaves
\* status failed, failed true, succeeded false, data = payload, stopTime = t
\* and duration = t - startTime; the metric emits exactly its stop event and
\* then its failure event, and its stop handlers have run before its failure
\* handlers, which see the failed outcome.
Thm_C13_Fail ==
  [][\A m \in Interactions :
       (call'.op = "fail" /\ call'.target = m /\ metric[m].status = "inProgress") =>
         \A d \in Payloads, t \in Times :
           Fail(m, d, t) =>
             /\ metric'[m] = [startTime |-> metric[m].startTime, stopTime |-> t,
                              duration |-> t - metric[m].startTime,
                              status |-> "failed"]
             /\ failed'[m] /\ ~succeeded'[m]
             /\ data'[m] = d
             /\ EventsOf(emitted', m) = <<"stop", "failure">>
             /\ InOrder(invoked', "stop", "failure")
             /\ \A i \in DOMAIN invoked' :
                  invoked'[i][4] = <<"failed", FALSE, TRUE, d>>]_vars

\* C13 witness: fail with a payload stopped an InteractionMetric in progress
\* and a stop handler and then a failure handler were invoked.
Wit_C13_FailObserved ==
  /\ call.op = "fail"
  /\ call.from = "inProgress"
  /\ metric[call.target].status = "failed"
  /\ data[call.target] = "payload"
  /\ Len(invoked) = 2
  /\ invoked[1][3] = "stop"
  /\ invoked[2][3] = "failure"

\* C14: succeed(payload, t) called on an InteractionMetric in progress leaves
\* status complete, succeeded true, failed false, data = payload, stopTime = t
\* and duration = t - startTime; the metric emits exactly its stop event and
\* then its success event, and its stop handlers have run before its success
\* handlers, which see the successful outcome.
Thm_C14_Succeed ==
  [][\A m \in Interactions :
       (call'.op = "succeed" /\ call'.target = m /\ metric[m].status = "inProgress") =>
         \A d \in Payloads, t \in Times :
           Succeed(m, d, t) =>
             /\ metric'[m] = [startTime |-> metric[m].startTime, stopTime |-> t,
                              duration |-> t - metric[m].startTime,
                              status |-> "complete"]
             /\ succeeded'[m] /\ ~failed'[m]
             /\ data'[m] = d
             /\ EventsOf(emitted', m) = <<"stop", "success">>
             /\ InOrder(invoked', "stop", "success")
             /\ \A i \in DOMAIN invoked' :
                  invoked'[i][4] = <<"complete", TRUE, FALSE, d>>]_vars

\* C14 witness: succeed with a payload stopped an InteractionMetric in
\* progress and a stop handler and then a success handler were invoked.
Wit_C14_SucceedObserved ==
  /\ call.op = "succeed"
  /\ call.from = "inProgress"
  /\ metric[call.target].status = "complete"
  /\ data[call.target] = "payload"
  /\ Len(invoked) = 2
  /\ invoked[1][3] = "stop"
  /\ invoked[2][3] = "success"

\* C15: succeed or fail called on an InteractionMetric that is not in
\* progress changes no time and no status of any metric and emits no stop
\* event, and still stores the call's data and sets succeeded and failed as
\* the call says.
Thm_C15_OutcomeOverwritten ==
  [][\A m \in Interactions :
       ( /\ call'.op \in {"succeed", "fail"}
         /\ call'.target = m
         /\ metric[m].status # "inProgress" ) =>
         /\ metric' = metric
         /\ \A x \in Metrics : EmitsIn(emitted', x, "stop") = 0
         /\ \A d \in Payloads, t \in Times :
              /\ Succeed(m, d, t) =>
                   data'[m] = d /\ succeeded'[m] /\ ~failed'[m]
              /\ Fail(m, d, t) =>
                   data'[m] = d /\ failed'[m] /\ ~succeeded'[m]]_vars

\* C15 witness: succeed with a payload was called on a metric that had
\* failed; the metric is still failed, and succeeded and data are the ones of
\* the call.
Wit_C15_SucceedAfterFail ==
  /\ call.op = "succeed"
  /\ call.from = "failed"
  /\ metric[call.target].status = "failed"
  /\ metric[call.target].stopTime > 0
  /\ succeeded[call.target]
  /\ ~failed[call.target]
  /\ data[call.target] = "payload"

\* C16: reset() called on an InteractionMetric leaves succeeded false, failed
\* false, data undefined, all times 0 and the status idle, and every reset
\* handler it invokes sees the outcome fields cleared.
Thm_C16_InteractionReset ==
  (call.op = "reset" /\ call.target \in Interactions) =>
    /\ ~succeeded[call.target]
    /\ ~failed[call.target]
    /\ data[call.target] = Undefined
    /\ metric[call.target] = NewMetric
    /\ Emits(call.target, "reset") = 1
    /\ \A i \in DOMAIN invoked :
         invoked[i][4] = <<"idol", FALSE, FALSE, Undefined>>

\* C16 witness: reset was called on an InteractionMetric that had failed and
\* a reset handler ran and saw the outcome cleared.
Wit_C16_ResetObserved ==
  /\ call.op = "reset"
  /\ call.target \in Interactions
  /\ call.from = "failed"
  /\ Len(invoked) = 1
  /\ invoked[1][3] = "reset"
  /\ invoked[1][4] = <<"idol", FALSE, FALSE, Undefined>>

\* C17: a plugin is subscribed, once, to exactly the events of its owner's
\* event set (start, stop, reset, and success and failure on an
\* InteractionMetric) that its class has a handler of its own for, and a call
\* invokes its handler for an event as often as the metric emitted the event
\* and for no other event.
Thm_C17_SubscribedToOverrides ==
  \A p \in Plugins, m \in Metrics, e \in Events :
    /\ Subscriptions(p, m, e) =
         (IF owner[p] = m /\ e \in events(m) /\ e \in Overrides(p) THEN 1 ELSE 0)
    /\ InvocationsIn(invoked, p, m, e) =
         (IF owner[p] = m /\ e \in Overrides(p) THEN Emits(m, e) ELSE 0)

\* C17 witness: both plugins belong to the InteractionMetric; succeed made it
\* emit stop and success, the stop-only plugin was invoked on stop and the
\* outcome plugin on success.
Wit_C17_Dispatched ==
  /\ \A p \in Plugins : owner[p] = "B"
  /\ call.op = "succeed"
  /\ call.from = "inProgress"
  /\ Len(invoked) = 2
  /\ invoked[1][1] = "stopOnly" /\ invoked[1][3] = "stop"
  /\ invoked[2][1] = "outcome" /\ invoked[2][3] = "success"

\* C18: register(metric) called again on a plugin that the metric has
\* registered changes no subscription, no plugin is subscribed to an event
\* twice, and no handler is invoked more often than its event was emitted.
Thm_C18_RegisterAgain ==
  [][ /\ ( /\ call'.op = "register"
           /\ registered[call'.plugin]
           /\ owner[call'.plugin] = call'.target ) =>
             /\ listeners' = listeners
             /\ registered' = registered
      /\ \A p \in Plugins, m \in Metrics, e \in Events :
           /\ Subscriptions(p, m, e)' <= 1
           /\ InvocationsIn(invoked', p, m, e) <= EmitsIn(emitted', m, e) ]_vars

\* C18 witness: register was called on a plugin for the metric that had
\* registered it, and the plugin is still subscribed once.
Wit_C18_RegisteredAgain ==
  /\ call.op = "register"
  /\ ~call.accepted
  /\ owner[call.plugin] = call.target
  /\ \E e \in Events : Subscriptions(call.plugin, call.target, e) = 1

Cex_C20_HandlersIsolated ==
  (\E i \in DOMAIN invoked : invoked[i][1] \in faulty) =>
    /\ ~thrown
    /\ \A p \in Plugins, m \in Metrics, e \in Events :
         InvocationsIn(invoked, p, m, e) = Subscriptions(p, m, e) * Emits(m, e)
    /\ call.op = "succeed" => Emits(call.target, "success") = 1
    /\ call.op = "fail" => Emits(call.target, "failure") = 1
    /\ \A c \in Children :
         Emits(c, "stop") = 1 => reference[name[c]] \in completedMetrics

ChildFields(s) ==
  << [c \in Children |-> s.metric[c]], s.failed, s.succeeded, s.data >>

\* C30: the start and stop listeners of the experience change no field of
\* any child, a call on a child changes no field of another child, and start
\* and stop called on the experience change no field of any child.
Thm_C30_ChildrenReadOnly ==
  [][ /\ \A c \in Children :
           /\ ChildFields(listenForStarts(Enter, c)) = ChildFields(State)
           /\ ChildFields(listenForStops(Enter, c)) = ChildFields(State)
      /\ call'.target \in Children =>
           \A d \in Children \ {call'.target} : metric'[d] = metric[d]
      /\ (call'.target = Experience /\ call'.op # "reset") =>
           /\ \A c \in Children : metric'[c] = metric[c]
           /\ failed' = failed /\ succeeded' = succeeded /\ data' = data ]_vars

\* C30 witness: the stop of the last child made the experience stop with the
\* later stopTime of the other child, which kept its fields.
Wit_C30_AggregatedFromOther ==
  /\ AggregatedStop
  /\ \A c \in Children : Stopped(c)
  /\ metric[Experience].stopTime > metric[call.target].stopTime
  /\ \E d \in Children \ {call.target} :
       metric[d].stopTime = metric[Experience].stopTime

\* C21: on a metric whose start and stop handlers call back into it, a
\* start that passes the idle guard leaves the startTime of the call and
\* emits start once, and a stop, succeed or fail that passes the inProgress
\* guard leaves the stopTime, duration and status of the call and emits stop
\* once: the call made from within the handler changes nothing.
Thm_C21_ReentrantInert ==
  [][\A m \in Children :
       (owner[Reentrant] = m /\ call'.target = m) =>
         /\ (call'.op = "start" /\ metric[m].status = "idol") =>
              /\ \A t \in Times :
                   Start(m, t) =>
                     metric'[m] = [NewMetric EXCEPT !.startTime = t,
                                                    !.status = "inProgress"]
              /\ EmitsIn(emitted', m, "start") = 1
              /\ InvocationsIn(invoked', Reentrant, m, "start") = 1
         /\ ( /\ call'.op \in {"stop", "succeed", "fail"}
              /\ metric[m].status = "inProgress" ) =>
              /\ \A t \in Times :
                   (Stop(m, t) \/ Succeed(m, Undefined, t) \/ Fail(m, Undefined, t)) =>
                     metric'[m] =
                       [startTime |-> metric[m].startTime, stopTime |-> t,
                        duration |-> t - metric[m].startTime,
                        status |-> IF call'.op = "fail" THEN "failed" ELSE "complete"]
              /\ EmitsIn(emitted', m, "stop") = 1
              /\ InvocationsIn(invoked', Reentrant, m, "stop") = 1]_vars

\* C21 witness: fail stopped the InteractionMetric, its stop handler ran and
\* called stop, and the metric is still failed.
Wit_C21_StopFromStopHandler ==
  /\ owner[Reentrant] = "B"
  /\ call.op = "fail"
  /\ call.target = "B"
  /\ call.from = "inProgress"
  /\ InvocationsIn(invoked, Reentrant, "B", "stop") = 1
  /\ metric["B"].status = "failed"
  /\ Emits("B", "stop") = 1

\* The numbers of the enqueue calls whose entries the payload holds, in order.
Ids(payload) == [i \in DOMAIN payload |-> payload[i].id]

\* The sequence 1, 2, ..., n.
Upto(n) == [i \in 1 .. n |-> i]

Thm_C24_HiddenFlush ==
  [][ call'.op = "visibilitychange" =>
        /\ (visibility' = "hidden" /\ pq.queue # <<>> /\ pq.scheduler # 0) =>
              /\ pq'.sent = Append(pq.sent, pq.queue)
              /\ \E r \in pq'.inflight \ pq.inflight : r.payload = pq.queue
              /\ pq'.scheduler = 0
              /\ DOMAIN pq'.timers = {}
        /\ visibility' # "hidden" => pq'.sent = pq.sent ]_vars

\* The page was hidden half a delay after the second of two enqueues, and both
\* entries went out in one request with the timer cleared.
Wit_C24_HiddenBeforeTimer ==
  /\ call.op = "visibilitychange"
  /\ visibility = "hidden"
  /\ Len(pq.sent) = 1
  /\ Ids(pq.sent[1]) = <<1, 2>>
  /\ now < pq.sent[1][2].at + Delay
  /\ DOMAIN pq.timers = {}

\* C25: every promise enqueue returned resolves to a boolean once the timers
\* have fired and the requests were answered: when no timer is live and no
\* request is in flight, no promise is pending. (The promise of an enqueue
\* whose timer was cleared by a later enqueue or by the flush of a hidden page
\* has nothing left to resolve it.)
Cex_C25_AllResolved ==
  (DOMAIN pq.timers = {} /\ pq.inflight = {}) =>
    \A n \in DOMAIN pq.promises : pq.promises[n] \in {"true", "false"}

\* C26: delivery is at most once: whatever the interleaving of enqueues,
\* timers, visibility changes and answers, no entry is in the payload of two
\* requests. (beacon empties the queue only after the await of the request,
\* so an entry is still queued while its request is in flight.)
Cex_C26_AtMostOnce ==
  \A i, j \in DOMAIN pq.sent :
    i # j =>
      {pq.sent[i][k].id : k \in DOMAIN pq.sent[i]}
        \cap {pq.sent[j][k].id : k \in DOMAIN pq.sent[j]} = {}

\* The entries the queue holds or has sent.
Entries(q) ==
  {q.queue[k] : k \in DOMAIN q.queue}
    \cup UNION {{q.sent[i][k] : k \in DOMAIN q.sent[i]} : i \in DOMAIN q.sent}

\* C29: a reset leaves the ProcessingQueue as it is (entries, timer and
\* listener), and an entry is only ever created by a stop, with the name,
\* startTime, stopTime, duration and status the metric has at the end of that
\* stop: the entries queued and sent are never rewritten afterwards.
Thm_C29_ResetKeepsEntry ==
  [][ /\ call'.op = "reset" => pq' = pq
      /\ \A e \in Entries(pq') \ Entries(pq) :
            /\ call'.op = "stop"
            /\ e.json = [ name |-> name[call'.target],
                          startTime |-> metric'[call'.target].startTime,
                          stopTime |-> metric'[call'.target].stopTime,
                          duration |-> metric'[call'.target].duration,
                          status |-> metric'[call'.target].status ] ]_vars

\* The metric was reset after its stop at half a delay was enqueued, and the
\* timer then sent the entry as it was enqueued.
Wit_C29_SentAfterReset ==
  /\ call.op = "timeout"
  /\ \E c \in Plain :
       /\ metric[c] = NewMetric
       /\ Len(pq.sent) = 1
       /\ Len(pq.sent[1]) = 1
       /\ pq.sent[1][1].json = [ name |-> name[c], startTime |-> 0,
                                 stopTime |-> Step, duration |-> Step,
                                 status |-> "complete" ]

\* C28: with a PageLoadPlugin, a start of the idle metric leaves its
\* startTime at the navigation timestamp recorded last (0 if none), whatever
\* time was passed; the startTime stays while the metric is in progress; and
\* the stop that follows leaves duration = stopTime - that startTime.
Thm_C28_StartsAtNavigation ==
  [][ \A m \in Plain :
        /\ (call'.op = "start" /\ call'.target = m /\ metric[m].status = "idol") =>
              /\ metric'[m].status = "inProgress"
              /\ metric'[m].startTime = timing
        /\ (metric[m].status = "inProgress" /\ metric'[m].status # "idol") =>
              metric'[m].startTime = metric[m].startTime
        /\ (call'.op = "stop" /\ call'.target = m
              /\ metric[m].status = "inProgress") =>
              /\ metric'[m].status = "complete"
              /\ metric'[m].duration = metric'[m].stopTime - metric[m].startTime ]_vars

\* A navigation was recorded at half a delay, a metric was started later
\* with a time of Times, and it starts at the navigation.
Wit_C28_StartedAtNavigation ==
  /\ call.op = "start"
  /\ Step \notin Times
  /\ timing = Step
  /\ \E m \in Plain :
       /\ call.target = m
       /\ metric[m].status = "inProgress"
       /\ metric[m].startTime = Step
       /\ pageLoad.transition

\* The resources counted for a metric that ran from startTime to stopTime:
\* scripts and stylesheets fetched and answered within the run.
Counted(startTime, stopTime) ==
  { i \in DOMAIN resources :
      /\ resources[i].name \in {Script, Style}
      /\ resources[i].fetchStart >= startTime
      /\ resources[i].responseEnd <= stopTime }

\* The sum of decodedBodySize over the resources of S.
RECURSIVE Bytes(_)
Bytes(S) ==
  IF S = {} THEN 0
  ELSE LET i == CHOOSE j \in S : TRUE
       IN resources[i].decodedBodySize + Bytes(S \ {i})

\* C27: after the stop of a metric in progress, criticalSize is the sum of
\* decodedBodySize over the counted resources, and cacheRate (a fraction) is
\* 100 * (the bytes of those with transferSize 0) / criticalSize when that is
\* not zero; cacheRate always lies in 0 .. 100; and when the 100, 200 and 700
\* byte resources are all counted and only the 700 byte one came from the
\* cache, criticalSize is 1000 and cacheRate is 70.
Thm_C27_CacheRate ==
  [][ /\ 0 <= critical'.cacheRate.num
      /\ critical'.cacheRate.den > 0
      /\ critical'.cacheRate.num <= 100 * critical'.cacheRate.den
      /\ \A m \in Plain :
            (call'.op = "stop" /\ call'.target = m
              /\ metric[m].status = "inProgress") =>
              LET counted == Counted(metric'[m].startTime, metric'[m].stopTime)
                  cached == {i \in counted : resources[i].transferSize = 0}
              IN /\ critical'.criticalSize = Bytes(counted)
                 /\ Bytes(counted) # 0 =>
                       critical'.cacheRate.num * Bytes(counted)
                         = 100 * Bytes(cached) * critical'.cacheRate.den
                 /\ (counted = DOMAIN Sizes /\ cached = {3}) =>
                       /\ critical'.criticalSize = 1000
                       /\ critical'.cacheRate = [num |-> 70, den |-> 1] ]_vars

\* The three resources were counted at a stop, only the 700 byte one from the
\* cache.
Wit_C27_SeventyPercent ==
  /\ call.op = "stop"
  /\ \A i \in DOMAIN resources : resources[i].name \in {Script, Style}
  /\ {i \in DOMAIN resources : resources[i].transferSize = 0} = {3}
  /\ critical = [cacheRate |-> [num |-> 70, den |-> 1], criticalSize |-> 1000]

\* The status a call of start (stop) must find to pass its guard.
Guard(event) == IF event = "start" THEN "idol" ELSE "inProgress"

\* C31: a reset leaves the names, the registered plugins, their metrics and
\* every subscription as they are; and a start or stop that passes its guard,
\* after resets too, invokes the handler of each plugin registered on the
\* metric with a handler for that event exactly once, and no other.
Thm_C31_ResetKeepsSubscriptions ==
  [][ \A m \in Interactions :
        /\ (call'.op = "reset" /\ call'.target = m) =>
              /\ name' = name
              /\ registered' = registered
              /\ owner' = owner
              /\ listeners' = listeners
        /\ \A event \in {"start", "stop"} :
              (call'.op = event /\ call'.target = m
                /\ metric[m].status = Guard(event)) =>
                \A p \in Plugins :
                  InvocationsIn(invoked', p, m, event)
                    = IF registered[p] /\ owner[p] = m /\ event \in Overrides(p)
                      THEN 1 ELSE 0 ]_vars

\* A metric that had stopped before, and so was reset and started again, was
\* stopped, and the stop handler of its plugin ran once.
Wit_C31_StopAfterReset ==
  /\ call.op = "stop"
  /\ call.target \in Interactions
  /\ call.stopped
  /\ call.from = "inProgress"
  /\ InvocationsIn(invoked, "stopOnly", call.target, "stop") = 1

\* C32: the handlers of a child's own plugins run before the experience's
\* listener on that child: when a child with a PageLoadPlugin is started, the
\* startTime the experience takes (when idle) or lowers its own to (otherwise)
\* is the navigation timestamp the plugin has put in the child's startTime,
\* not the time the child was started with.
Thm_C32_PluginsBeforeExperience ==
  [][ \A m \in Plain :
        (call'.op = "start" /\ call'.target = m /\ metric[m].status = "idol") =>
          /\ InvocationsIn(invoked', PageLoad, m, "start") = 1
          /\ metric'[m].startTime = timing
          /\ metric'[Experience].startTime =
                IF metric[Experience].status = "idol" THEN timing
                ELSE Min(timing, metric[Experience].startTime)
          /\ metric[Experience].status = "idol" =>
                /\ metric'[Experience].status = "inProgress"
                /\ emitted' = <<(<<m, "start">>), (<<Experience, "start">>)>> ]_vars

\* A child started after a navigation at half a delay started its idle
\* experience, which took the navigation timestamp.
Wit_C32_ExperienceAtNavigation ==
  /\ call.op = "start"
  /\ call.target \in Plain
  /\ Step \notin Times
  /\ timing = Step
  /\ Emits(Experience, "start") = 1
  /\ metric[Experience].startTime = Step

\* The factory's table names ReporterPlugin and no ProcessingQueue was given.
ReporterWithoutQueue ==
  /\ ~factory.Queue
  /\ \E i \in DOMAIN factory.factories :
       factory.factories[i].proto = "ReporterPlugin"

\* C33: a create call on a factory whose table names ReporterPlugin and that
\* has no ProcessingQueue throws and constructs no metric; any other create
\* call returns, having constructed one metric whose plugin table holds, for
\* every key of the factory, one instance of the key's class that did not
\* exist before the call, different keys holding different instances.
Thm_C33_FactoryCreates ==
  [][ call'.op \in {"createMetric", "createInteraction", "createExperience"} =>
        IF ReporterWithoutQueue
        THEN thrown' /\ factory'.created = factory.created
        ELSE /\ ~thrown'
             /\ Len(factory'.created) = Len(factory.created) + 1
             /\ LET made == factory'.created[Len(factory'.created)].plugins
                    At(key) == {j \in DOMAIN made : made[j].key = key}
                IN \A i \in DOMAIN factory.factories :
                     /\ Cardinality(At(factory.factories[i].key)) = 1
                     /\ \A j \in At(factory.factories[i].key) :
                          /\ made[j].instance \notin DOMAIN factory.instances
                          /\ made[j].instance \in DOMAIN factory'.instances
                          /\ factory'.instances[made[j].instance].proto
                               = factory.factories[i].proto
                          /\ \A k \in DOMAIN made :
                               made[k].instance = made[j].instance => k = j ]_vars

\* A create call threw after the plugin of the key before ReporterPlugin was
\* constructed, and no metric exists.
Wit_C33_ThrewWithoutQueue ==
  /\ call.op = "createInteraction"
  /\ thrown
  /\ ReporterWithoutQueue
  /\ Len(factory.instances) = 2
  /\ factory.created = <<>>

\* C34: with a ReporterPlugin, a stop, succeed or fail call on a metric in
\* progress appends exactly one entry, that of the metric as the call leaves
\* it, to the ProcessingQueue and schedules the flush; such a call on a metric
\* that is not in progress leaves the ProcessingQueue as it is.
Thm_C34_EnqueuedOnce ==
  [][ \A m \in Interactions :
        (call'.op \in {"stop", "succeed", "fail"} /\ call'.target = m) =>
          IF metric[m].status = "inProgress"
          THEN /\ Len(pq'.queue) = Len(pq.queue) + 1
               /\ SubSeq(pq'.queue, 1, Len(pq.queue)) = pq.queue
               /\ pq'.queue[Len(pq'.queue)].json.name = name[m]
               /\ pq'.queue[Len(pq'.queue)].json.status = metric'[m].status
               /\ Len(pq'.promises) = Len(pq.promises) + 1
               /\ InvocationsIn(invoked', Reporter, m, "stop") = Len(invoked')
               /\ Len(invoked') = 1
          ELSE /\ pq' = pq
               /\ invoked' = <<>> ]_vars

\* A call completed the metric in progress and enqueued it once, and the
\* fail that followed, blocked by the guard, enqueued nothing.
Wit_C34_BlockedFailAfterSucceed ==
  /\ call.op = "fail"
  /\ call.from = "complete"
  /\ \E m \in Interactions : call.target = m /\ succeeded[m] = FALSE
  /\ Len(pq.queue) = 1
  /\ pq.queue[1].json.status = "complete"

\* C35: no enqueued entry is lost: once no timer is live and no request is
\* in flight, the entry of every enqueue call is in the payload of some
\* request. (The answer to a request empties the queue, the entries enqueued
\* while it was in flight included.)
Cex_C35_NothingLost ==
  (DOMAIN pq.timers = {} /\ pq.inflight = {}) =>
    \A n \in DOMAIN pq.promises :
      \E i \in DOMAIN pq.sent : \E k \in DOMAIN pq.sent[i] : pq.sent[i][k].id = n

\* C36: when a call on a child makes the experience emit its stop event,
\* every child is complete or failed. (A child that was reset on its own
\* after it stopped still counts as completed.)
Cex_C36_AllChildrenStopped ==
  AggregatedStop => \A c \in Children : Stopped(c)

\* C37: a metric that is complete or failed keeps its startTime, stopTime,
\* duration and status in every step but a reset of it (a reset of the
\* experience resets its children). (The start of a child lowers the
\* startTime of its experience also when the experience is complete.)
Cex_C37_FrozenUntilReset ==
  [][ \A m \in Metrics :
        (Stopped(m)
          /\ ~(call'.op = "reset" /\ call'.target \in {m, Experience})) =>
          metric'[m] = metric[m] ]_vars

\* An InteractionMetric without an outcome.
Untouched(m) == ~succeeded[m] /\ ~failed[m] /\ data[m] = Undefined

\* C38: succeeded and failed are never both true; an InteractionMetric is
\* constructed without an outcome, is without one after every reset of it or
\* of its experience, and stays without one in every step that is not a
\* succeed or fail call on it.
Thm_C38_OutcomeExclusive ==
  /\ \A m \in Interactions : Untouched(m)
  /\ [][ \A m \in Interactions :
           /\ ~(succeeded'[m] /\ failed'[m])
           /\ (call'.op = "reset" /\ call'.target \in {m, Experience}) =>
                 Untouched(m)'
           /\ (Untouched(m)
                 /\ ~(call'.op \in {"succeed", "fail"} /\ call'.target = m)) =>
                 Untouched(m)' ]_vars

\* A failed InteractionMetric was reset and is without an outcome.
Wit_C38_ResetAfterFail ==
  /\ call.op = "reset"
  /\ call.from = "failed"
  /\ \E m \in Interactions : call.target = m /\ Untouched(m)

Cex_C40_OutcomeAfterStop ==
  \A m \in Interactions :
    LET own == EventsOf(emitted, m)
    IN \A i \in DOMAIN own :
         own[i] \in ReliabilityEvents => (i > 1 /\ own[i - 1] = "stop")

====
